---- MODULE Spec2Model ----
(***************************************************************************)
(* A model of xdv's rule compiler (lib/xdv/compiler.py) and transform       *)
(* runner (lib/xdv/run.py).                                                 *)
(*                                                                          *)
(* Text is a sequence of tokens.  A token is one character, except for the  *)
(* atoms "@import " (the keyword with the white space \s+ that follows it), *)
(* "url(" and "[if IE": none holds a '/', a ':' or a '.', so path handling  *)
(* sees them as opaque characters.  An absent attribute, an empty attribute *)
(* and an element without text (lxml: None) are the empty sequence.         *)
(***************************************************************************)
EXTENDS Integers, Sequences, FiniteSets, TLC

VARIABLES
    prefix,     \* absolute_prefix as the caller passed it
    theme,      \* the theme document: its nodes in document order
    before,     \* the theme document as it was when the latest pass began
    rpc,        \* apply_absolute_prefix: "ready", "done", "raised"; "off" when unused
    passes,     \* how many times apply_absolute_prefix has been called on theme
    calls,      \* compile_theme calls: call id -> frame
    registry,   \* parser id -> the resolvers registered on that parser
    cli         \* the console script being run (compiler main or runner main)

vars == <<prefix, theme, before, rpc, passes, calls, registry, cli>>

(***************************************************************************)
(* Bounds.                                                                  *)
(***************************************************************************)
MaxLen == 3
MaxNodes == 2
MaxPasses == 2
MaxCalls == 2

(***************************************************************************)
(* Strings.                                                                 *)
(***************************************************************************)
Chars == {"/", ".", "a", ":"}

SeqsUpTo(S, n) == UNION {[1..k -> S] : k \in 0..n}

startswith(s, c) == Len(s) > 0 /\ s[1] = c

endswith(s, c) == Len(s) > 0 /\ s[Len(s)] = c

\* '://' in s
HasNetLoc(s) ==
    \E i \in 1..(Len(s) - 2) : s[i] = ":" /\ s[i + 1] = "/" /\ s[i + 2] = "/"

RECURSIVE SplitFrom(_, _, _)
SplitFrom(s, i, cur) ==
    IF i > Len(s) THEN <<cur>>
    ELSE IF s[i] = "/" THEN <<cur>> \o SplitFrom(s, i + 1, <<>>)
    ELSE SplitFrom(s, i + 1, Append(cur, s[i]))

\* s.split('/')
split(s) == SplitFrom(s, 1, <<>>)

RECURSIVE join(_)
\* '/'.join(comps)
join(comps) ==
    IF comps = <<>> THEN <<>>
    ELSE IF Len(comps) = 1 THEN comps[1]
    ELSE comps[1] \o <<"/">> \o join(Tail(comps))

dot == <<".">>
dotdot == <<".", ".">>

RECURSIVE NormComps(_, _, _)
\* the loop of posixpath.normpath over the components
NormComps(comps, new_comps, initial_slashes) ==
    IF comps = <<>> THEN new_comps
    ELSE LET comp == Head(comps) IN
         IF comp = <<>> \/ comp = dot
         THEN NormComps(Tail(comps), new_comps, initial_slashes)
         ELSE IF comp # dotdot
                 \/ (initial_slashes = 0 /\ new_comps = <<>>)
                 \/ (new_comps # <<>> /\ new_comps[Len(new_comps)] = dotdot)
         THEN NormComps(Tail(comps), Append(new_comps, comp), initial_slashes)
         ELSE IF new_comps # <<>>
         THEN NormComps(Tail(comps), SubSeq(new_comps, 1, Len(new_comps) - 1),
                        initial_slashes)
         ELSE NormComps(Tail(comps), new_comps, initial_slashes)

\* os.path.normpath on a host whose separator is '/' (posixpath)
normpath(path) ==
    IF path = <<>> THEN dot
    ELSE LET initial_slashes ==
                 IF ~startswith(path, "/") THEN 0
                 ELSE IF Len(path) >= 2 /\ path[2] = "/"
                         /\ ~(Len(path) >= 3 /\ path[3] = "/") THEN 2
                 ELSE 1
             joined == join(NormComps(split(path), <<>>, initial_slashes))
             out == IF initial_slashes = 2 THEN <<"/", "/">> \o joined
                    ELSE IF initial_slashes = 1 THEN <<"/">> \o joined
                    ELSE joined
         IN IF out = <<>> THEN dot ELSE out

\* to_absolute without the normalisation step
to_absolute_unnormalized(path, prefix_) ==
    IF startswith(path, "/") \/ HasNetLoc(path) THEN path
    ELSE prefix_ \o <<"/">> \o path

\* to_absolute without the early return for absolute paths and full urls
to_absolute_always(path, prefix_) ==
    LET absolute == prefix_ \o <<"/">> \o path
    IN IF HasNetLoc(absolute) THEN absolute ELSE normpath(absolute)

to_absolute(path, prefix_) ==
    IF startswith(path, "/") \/ HasNetLoc(path) THEN path
    ELSE LET absolute == prefix_ \o <<"/">> \o path
         IN IF HasNetLoc(absolute) THEN absolute ELSE normpath(absolute)

\* lines 72-73: one trailing '/' is cut off the prefix
StripPrefix(p) == IF endswith(p, "/") THEN SubSeq(p, 1, Len(p) - 1) ELSE p

(***************************************************************************)
(* IMPORT_STYLESHEET and its substitution (re.sub).                         *)
(*   (@import\s+(?:url\(['"]?|['"]))(.+)(['"]?\)|['"])                      *)
(***************************************************************************)
IsQuote(t) == t \in {"'", "\""}

At(text, i) == IF i >= 1 /\ i <= Len(text) THEN text[i] ELSE "<eof>"

\* where group 1 can end when it starts at i, in the order the matcher tries
Group1Ends(text, i) ==
    IF At(text, i) # "@import " THEN <<>>
    ELSE IF At(text, i + 1) = "url("
    THEN (IF IsQuote(At(text, i + 2)) THEN <<i + 2, i + 1>> ELSE <<i + 1>>)
    ELSE IF IsQuote(At(text, i + 1)) THEN <<i + 1>>
    ELSE <<>>

\* where group 3 ends when it starts at j (0: it does not match there)
Group3End(text, j) ==
    IF IsQuote(At(text, j)) /\ At(text, j + 1) = ")" THEN j + 1
    ELSE IF At(text, j) = ")" THEN j
    ELSE IF IsQuote(At(text, j)) THEN j
    ELSE 0

RECURSIVE LineEnd(_, _)
\* the last index of the run of non-newline tokens that starts at j (j - 1: none)
LineEnd(text, j) ==
    IF j > Len(text) \/ text[j] = "\n" THEN j - 1 ELSE LineEnd(text, j + 1)

\* the ends of group 2 (.+, greedy) for which group 3 matches right after it
Group2Ends(text, e) ==
    {k \in (e + 1)..LineEnd(text, e + 1) : Group3End(text, k + 1) # 0}

NoMatch == [found |-> FALSE, g1 |-> 0, g2 |-> 0, g3 |-> 0]

RECURSIVE FirstMatch(_, _)
FirstMatch(text, ends) ==
    IF ends = <<>> THEN NoMatch
    ELSE LET e == Head(ends)
             ks == Group2Ends(text, e)
         IN IF ks = {} THEN FirstMatch(text, Tail(ends))
            ELSE LET k == CHOOSE x \in ks : \A y \in ks : y <= x
                 IN [found |-> TRUE, g1 |-> e, g2 |-> k,
                     g3 |-> Group3End(text, k + 1)]

\* the match of IMPORT_STYLESHEET that starts at i
MatchAt(text, i) == FirstMatch(text, Group1Ends(text, i))

RECURSIVE SubFrom(_, _, _)
SubFrom(text, i, p) ==
    IF i > Len(text) THEN <<>>
    ELSE LET m == MatchAt(text, i) IN
         IF ~m.found THEN <<text[i]>> \o SubFrom(text, i + 1, p)
         ELSE SubSeq(text, i, m.g1)
              \o to_absolute(SubSeq(text, m.g1 + 1, m.g2), p)
              \o SubSeq(text, m.g2 + 1, m.g3)
              \o SubFrom(text, m.g3 + 1, p)

\* line 84: IMPORT_STYLESHEET.sub(lambda match: ..., node.text)
SubImports(text, p) == SubFrom(text, 1, p)

(***************************************************************************)
(* The theme document and apply_absolute_prefix.                            *)
(* A node: tag, depth (1: a child of the root element), attr ("src",        *)
(* "href" or "none": the one attribute it carries), ref (that attribute's   *)
(* value), text.                                                            *)
(***************************************************************************)
SrcTags == {"img", "script", "input"}

Node(tag, depth, attr, ref, text) ==
    [tag |-> tag, depth |-> depth, attr |-> attr, ref |-> ref, text |-> text]

\* line 74: '*//style | *//script | *//img | *//link | *//input | *//comment()'
\* evaluated by ElementTree.xpath, whose context node for a relative path is
\* the root element: a child of a child of the root, or deeper
Selected(doc) ==
    SelectSeq([i \in 1..Len(doc) |-> i],
              LAMBDA i : doc[i].depth >= 2
                         /\ doc[i].tag \in SrcTags \cup {"link", "style", "comment"})

IsIEComment(n) ==
    n.tag = "comment" /\ Len(n.text) >= 1 /\ n.text[1] = "[if IE"

\* line 84 on a style element without text: re.sub(..., None) raises TypeError
Raises(n) == n.tag = "style" /\ n.text = <<>>

\* lines 75-84 for one node that does not raise
RewriteNode(n, p) ==
    IF n.tag \in SrcTags
    THEN (IF n.attr = "src" /\ n.ref # <<>>
          THEN [n EXCEPT !.ref = to_absolute(n.ref, p)] ELSE n)
    ELSE IF n.tag = "link"
    THEN (IF n.attr = "href" /\ n.ref # <<>>
          THEN [n EXCEPT !.ref = to_absolute(n.ref, p)] ELSE n)
    ELSE IF n.tag = "style" \/ IsIEComment(n)
    THEN [n EXCEPT !.text = SubImports(n.text, p)]
    ELSE n

RECURSIVE ApplyFrom(_, _, _)
ApplyFrom(doc, sel, p) ==
    IF sel = <<>> THEN [doc |-> doc, raised |-> FALSE]
    ELSE IF Raises(doc[Head(sel)]) THEN [doc |-> doc, raised |-> TRUE]
    ELSE ApplyFrom([doc EXCEPT ![Head(sel)] = RewriteNode(doc[Head(sel)], p)],
                   Tail(sel), p)

\* lines 71-84: the document as the call leaves it, and whether it raised
apply_absolute_prefix(theme_doc, absolute_prefix) ==
    ApplyFrom(theme_doc, Selected(theme_doc), StripPrefix(absolute_prefix))

(***************************************************************************)
(* The references each @import construct of a style text holds, rewritten   *)
(* one by one: the construct's opening (@import url(, @import url(", ...),  *)
(* then the reference, a run of reference characters, then its closing.     *)
(***************************************************************************)
RECURSIVE RefEnd(_, _)
\* the last index of the run of reference characters that starts at j
RefEnd(text, j) ==
    IF j > Len(text) \/ text[j] \notin Chars THEN j - 1 ELSE RefEnd(text, j + 1)

RECURSIVE EachImportFrom(_, _, _)
EachImportFrom(text, i, p) ==
    IF i > Len(text) THEN <<>>
    ELSE LET ends == Group1Ends(text, i)
             e == IF ends = <<>> THEN 0 ELSE Head(ends)
             k == IF ends = <<>> THEN 0 ELSE RefEnd(text, e + 1)
         IN IF ends # <<>> /\ k > e /\ Group3End(text, k + 1) # 0
            THEN SubSeq(text, i, e) \o to_absolute(SubSeq(text, e + 1, k), p)
                 \o EachImportFrom(text, k + 1, p)
            ELSE <<text[i]>> \o EachImportFrom(text, i + 1, p)

EachImportRewritten(text, p) == EachImportFrom(text, 1, p)

(***************************************************************************)
(* The state of a console script.  An option that was not given is the      *)
(* empty set.                                                               *)
(***************************************************************************)
Options(rules, theme_, extra, xsl, trace, absolute_prefix, includemode, read_network) ==
    [rules |-> rules, theme |-> theme_, extra |-> extra, xsl |-> xsl, trace |-> trace,
     absolute_prefix |-> absolute_prefix, includemode |-> includemode,
     read_network |-> read_network]

NoOptions == Options({}, {}, {}, {}, FALSE, <<>>, {}, FALSE)

Cli(script, pc, nargs, path_is_xsl, options, theme_file) ==
    [script |-> script, pc |-> pc, nargs |-> nargs, path_is_xsl |-> path_is_xsl,
     options |-> options, theme_file |-> theme_file, access_control |-> {},
     output_xslt |-> "none", written |-> FALSE]

NoCli == Cli("none", "-", 0, FALSE, NoOptions, <<>>)

(***************************************************************************)
(* Inputs.                                                                  *)
(***************************************************************************)
NonEmpty(S) == {s \in S : s # <<>>}

\* every non-empty string of at most MaxLen characters
Strings == NonEmpty(SeqsUpTo(Chars, MaxLen))

RelRef == <<".", "/", "a">>
AbsRef == <<"/", ".", "/", "a">>
NetRef == <<"a", ":", "/", "/", ".", "/", "a">>
DocRefs == {RelRef, AbsRef, NetRef}

ThemePrefixes == {<<"/", "a", "/">>, <<"a", ":", "/", "/", "a">>}

ImportUrl(q, r) == <<"@import ", "url(">> \o q \o r \o q \o <<")">>
ImportQuoted(q, r) == <<"@import ">> \o q \o r \o q

OneImport == ImportUrl(<<>>, RelRef) \o <<";">>
TwoOnOneLine ==
    ImportQuoted(<<"\"">>, RelRef) \o <<";", " ">>
    \o ImportQuoted(<<"\"">>, RelRef) \o <<";">>
TwoLines ==
    ImportQuoted(<<"'">>, RelRef) \o <<";", "\n">>
    \o ImportUrl(<<"\"">>, AbsRef) \o <<";">>
NoImport == <<"a", " ", "a", ";">>

StyleTexts == {<<>>, OneImport, TwoOnOneLine, TwoLines, NoImport}
CommentTexts == {<<"[if IE">> \o OneImport, OneImport}

Depths == {1, 2}

AttrNodes ==
    {Node(t, d, "src", r, <<>>) : t \in SrcTags \cup {"link"}, d \in Depths, r \in DocRefs}
    \cup {Node(t, d, "href", r, <<>>) : t \in {"link", "img", "a"}, d \in Depths, r \in DocRefs}
TextNodes ==
    {Node("style", d, "none", <<>>, t) : d \in Depths, t \in StyleTexts}
    \cup {Node("comment", d, "none", <<>>, t) : d \in Depths, t \in CommentTexts}

Themes == NonEmpty(SeqsUpTo(AttrNodes \cup TextNodes, MaxNodes))

\* a theme whose one resource is an image below the body
ImageThemes == {<<Node("img", 2, "src", r, <<>>)>> : r \in Strings}

NoCalls == <<>>

(***************************************************************************)
(* apply_absolute_prefix, called on a theme document (once more on the      *)
(* document it left, up to MaxPasses times).                                *)
(***************************************************************************)
ApplyAbsolutePrefix ==
    /\ rpc \in {"ready", "done"}
    /\ passes < MaxPasses
    /\ LET res == apply_absolute_prefix(theme, prefix)
       IN /\ theme' = res.doc
          /\ rpc' = IF res.raised THEN "raised" ELSE "done"
    /\ before' = theme
    /\ passes' = passes + 1
    /\ UNCHANGED <<prefix, calls, registry, cli>>

NextRewrite == ApplyAbsolutePrefix

InitRewrite ==
    /\ prefix \in ThemePrefixes
    /\ theme \in Themes
    /\ before = theme
    /\ rpc = "ready"
    /\ passes = 0
    /\ calls = NoCalls
    /\ registry = <<>>
    /\ cli = NoCli

InitImage ==
    /\ prefix \in Strings
    /\ theme \in ImageThemes
    /\ before = theme
    /\ rpc = "ready"
    /\ passes = 0
    /\ calls = NoCalls
    /\ registry = <<>>
    /\ cli = NoCli

SpecRewrite == InitRewrite /\ [][NextRewrite]_vars

SpecImage == InitImage /\ [][NextRewrite]_vars

(***************************************************************************)
(* Claims about the Theme URL Rewriter.                                     *)
(***************************************************************************)
IsRelative(r) == r # <<>> /\ ~startswith(r, "/") /\ ~HasNetLoc(r)

RECURSIVE Collapse(_, _)
\* segments with every empty and '.' segment dropped and every 'x/..' pair
\* cancelled; a '..' that would climb above the root is dropped
Collapse(segs, rooted) ==
    IF \E i \in 1..Len(segs) : segs[i] \in {<<>>, dot}
    THEN LET i == CHOOSE x \in 1..Len(segs) : segs[x] \in {<<>>, dot}
         IN Collapse(SubSeq(segs, 1, i - 1) \o SubSeq(segs, i + 1, Len(segs)), rooted)
    ELSE IF \E i \in 1..(Len(segs) - 1) : segs[i] # dotdot /\ segs[i + 1] = dotdot
    THEN LET i == CHOOSE x \in 1..(Len(segs) - 1) :
                      segs[x] # dotdot /\ segs[x + 1] = dotdot
         IN Collapse(SubSeq(segs, 1, i - 1) \o SubSeq(segs, i + 2, Len(segs)), rooted)
    ELSE IF rooted /\ segs # <<>> /\ segs[1] = dotdot
    THEN Collapse(Tail(segs), rooted)
    ELSE segs

\* the normalized form of a joined path: one '/' between segments, no '.'
\* segment, no 'x/..' pair
Normalized(j) ==
    LET rooted == startswith(j, "/")
        body == join(Collapse(split(j), rooted))
    IN IF rooted THEN <<"/">> \o body
       ELSE IF body = <<>> THEN dot ELSE body

Joined(p, r) == StripPrefix(p) \o <<"/">> \o r

TwoLeadingSlashes(j) ==
    Len(j) >= 2 /\ j[1] = "/" /\ j[2] = "/" /\ ~(Len(j) >= 3 /\ j[3] = "/")

\* C1 as stated: the value written back for a relative reference r under
\* prefix p is the normalized join of p and r.
C1_NormalizedJoin ==
    (rpc = "done" /\ IsRelative(before[1].ref))
        => theme[1].ref = Normalized(Joined(prefix, before[1].ref))

\* C1, amended: the value written back for a relative reference r under
\* prefix p is the join p/r itself when that join holds '://', and otherwise
\* its normalized form, in which a join that begins with exactly two slashes
\* keeps both.
C1_NormalizedJoinUnlessLocator ==
    (rpc = "done" /\ IsRelative(before[1].ref))
        => LET j == Joined(prefix, before[1].ref)
           IN theme[1].ref =
                  IF HasNetLoc(j) THEN j
                  ELSE IF TwoLeadingSlashes(j) THEN <<"/">> \o Normalized(j)
                  ELSE Normalized(j)

\* a relative reference was rewritten and the normalisation changed the join
C1_Witness ==
    /\ rpc = "done"
    /\ IsRelative(before[1].ref)
    /\ ~HasNetLoc(Joined(prefix, before[1].ref))
    /\ theme[1].ref # Joined(prefix, before[1].ref)
    /\ theme[1].ref # before[1].ref

\* C2: a reference of an img, script, input or link node that starts with
\* '/' or holds '://' has, after every pass of apply_absolute_prefix, the
\* value it had before that pass.
C2_AbsoluteRefsUnchanged ==
    \A i \in 1..Len(theme) :
        (/\ theme[i].tag \in SrcTags \cup {"link"}
         /\ (startswith(before[i].ref, "/") \/ HasNetLoc(before[i].ref)))
            => theme[i].ref = before[i].ref

\* the second pass has run over a document with a visited img, script or
\* input whose src is absolute and a visited link whose href is a full url
C2_Witness ==
    /\ rpc = "done"
    /\ passes = MaxPasses
    /\ \E i \in 1..Len(theme) :
           /\ theme[i].tag \in SrcTags /\ theme[i].attr = "src"
           /\ theme[i].depth >= 2 /\ startswith(before[i].ref, "/")
    /\ \E i \in 1..Len(theme) :
           /\ theme[i].tag = "link" /\ theme[i].attr = "href"
           /\ theme[i].depth >= 2 /\ HasNetLoc(before[i].ref)

\* C7: once apply_absolute_prefix has run, the text of every style element
\* and '[if IE' comment it visited is the text before the call with the
\* reference of each @import construct replaced by to_absolute of it, and
\* nothing else changed.
C7_EachImportRewritten ==
    rpc = "done" =>
        \A i \in 1..Len(theme) :
            (before[i].depth >= 2 /\ (before[i].tag = "style" \/ IsIEComment(before[i])))
                => theme[i].text =
                       EachImportRewritten(before[i].text, StripPrefix(prefix))

\* what the rewriter is to make of a node, at any depth
Rewritten(n, p) ==
    IF n.tag \in SrcTags /\ n.attr = "src" /\ n.ref # <<>>
    THEN [n EXCEPT !.ref = to_absolute(n.ref, p)]
    ELSE IF n.tag = "link" /\ n.attr = "href" /\ n.ref # <<>>
    THEN [n EXCEPT !.ref = to_absolute(n.ref, p)]
    ELSE IF n.tag = "style" \/ IsIEComment(n)
    THEN [n EXCEPT !.text = SubImports(n.text, p)]
    ELSE n

\* C8: once apply_absolute_prefix has run, every node of the theme, wherever
\* it sits, is rewritten: src of img, script and input, href of link, the
\* @import substitution in style elements and '[if IE' comments; everything
\* else is as it was.
C8_EveryResourceNodeRewritten ==
    rpc = "done" =>
        \A i \in 1..Len(theme) :
            theme[i] = Rewritten(before[i], StripPrefix(prefix))

\* C10: apply_absolute_prefix never raises.
C10_NeverRaises == rpc # "raised"

(***************************************************************************)
(* The rules document and the documents the compiler serializes.            *)
(* A rules document is known by the file it came from, its namespace, by    *)
(* whether its transclusion directives are resolved and by the syntax of    *)
(* its locators.  An optional value is a set with at most one member.       *)
(***************************************************************************)
NoDoc == [kind |-> "none", file |-> 0, ns |-> "-", included |-> FALSE, locators |-> "-"]

\* etree.parse(rules, parser=rules_parser)
ParseRulesFile(rules) ==
    [kind |-> "rules", file |-> rules.file, ns |-> rules.ns,
     included |-> FALSE, locators |-> "css"]

\* etree.parse(extra)
ParseExtraFile(f) ==
    [kind |-> "extra", file |-> f, ns |-> "-", included |-> FALSE, locators |-> "-"]

\* rules_doc.xinclude(), in place
xinclude(doc) == [doc EXCEPT !.included = TRUE]

\* update-namespace.xsl: the same rules in the current namespace
update_transform(doc) == [doc EXCEPT !.ns = "xdv"]

update_namespace(rules) ==
    IF rules.ns = "old" THEN update_transform(rules) ELSE rules

\* cssrules.convert_css_selectors: every selector locator becomes a tree query
convert_css_selectors(doc) == [doc EXCEPT !.locators = "xpath"]

\* etree.tostring(doc): the bytes of the document as it stands
tostring(doc) ==
    [doc EXCEPT !.kind = IF doc.kind = "rules" THEN "rules bytes" ELSE "extra bytes"]

(***************************************************************************)
(* CompileResolver and the resolver registry of a parser.                   *)
(***************************************************************************)
RulesSlot == "__xdv__rules"
ExtraSlot == "__xdv__extra"
Urls == {RulesSlot, ExtraSlot, "other.xml"}

\* CompileResolver.__init__
CompileResolver(id, rules, extra) == [id |-> id, rules |-> rules, extra |-> extra]

\* a resolver that answers both reserved identifiers with the rules
resolve_any_slot(self, url) ==
    IF url \in {RulesSlot, ExtraSlot} THEN {self.rules} ELSE {}

\* CompileResolver.resolve: the document it returns ({}: it returns None)
resolve(self, url) ==
    IF url = RulesSlot THEN {self.rules}
    ELSE IF url = ExtraSlot /\ self.extra # {} THEN self.extra
    ELSE {}

Ambient == [url |-> "", by |-> 0, doc |-> NoDoc]

\* what a document-load request can be answered with: the registry asks its
\* resolvers in the iteration order of a set and takes the first that does
\* not decline; when all decline the request goes to the ambient loader (by 0)
Answers(resolvers, url) ==
    LET claimed == {[url |-> url, by |-> r.id,
                     doc |-> CHOOSE d \in resolve(r, url) : TRUE] :
                        r \in {x \in resolvers : resolve(x, url) # {}}}
    IN IF claimed = {} THEN {[Ambient EXCEPT !.url = url]} ELSE claimed

(***************************************************************************)
(* Access policies.                                                         *)
(***************************************************************************)
XSLTAccessControl(read_file, write_file, create_dir, read_network, write_network) ==
    [read_file |-> read_file, write_file |-> write_file, create_dir |-> create_dir,
     read_network |-> read_network, write_network |-> write_network]

\* line 139
DefaultAccessControl == XSLTAccessControl(TRUE, FALSE, FALSE, FALSE, FALSE)

\* a policy that grants network reads whatever the option says
MainAccessControlOpen(read_network) ==
    XSLTAccessControl(TRUE, FALSE, FALSE, TRUE, FALSE)

\* line 206
MainAccessControl(read_network) ==
    XSLTAccessControl(TRUE, FALSE, FALSE, read_network, FALSE)

\* xdv.utils: the two presets
AC_READ_FILE == XSLTAccessControl(TRUE, FALSE, FALSE, FALSE, FALSE)
AC_READ_NET == XSLTAccessControl(TRUE, FALSE, FALSE, TRUE, FALSE)

\* policies a caller of compile_theme may pass
CallerPolicies == {AC_READ_FILE, XSLTAccessControl(TRUE, TRUE, TRUE, TRUE, TRUE)}

(***************************************************************************)
(* compile_theme.  A frame holds the arguments of one call, where the call  *)
(* stands (pc) and its local variables; steps records what it has done.     *)
(***************************************************************************)
\* line 86: the parameters compile_theme accepts
CompileThemeParams ==
    {"rules", "theme", "extra", "css", "xinclude", "absolute_prefix", "update",
     "trace", "includemode", "parser", "compiler_parser", "rules_parser",
     "access_control"}

Args(rules, theme_, extra, css, xinc, absolute_prefix, update, trace, includemode, compiler_parser, access_control) ==
    [rules |-> rules, theme |-> theme_, extra |-> extra, css |-> css,
     xinclude |-> xinc, absolute_prefix |-> absolute_prefix, update |-> update,
     trace |-> trace, includemode |-> includemode,
     compiler_parser |-> compiler_parser, access_control |-> access_control]

Frame(args) ==
    [args |-> args, pc |-> "parse_rules", parsed |-> NoDoc, rules_doc |-> NoDoc,
     theme_doc |-> <<>>, compiler_parser |-> {}, access_control |-> {},
     params |-> {}, resolver |-> {}, loaded |-> {}, steps |-> <<>>]

Step(f, pc, name) == [f EXCEPT !.pc = pc, !.steps = Append(@, name)]

Goto(f, pc) == [f EXCEPT !.pc = pc]

\* lines 118-120
ParseRules(c) ==
    /\ calls[c].pc = "parse_rules"
    /\ LET doc == ParseRulesFile(calls[c].args.rules)
       IN calls' = [calls EXCEPT ![c] =
               Step([@ EXCEPT !.parsed = doc, !.rules_doc = doc], "xinclude", "parse rules")]
    /\ UNCHANGED <<prefix, theme, before, rpc, passes, registry, cli>>

\* lines 122-123
XInclude(c) ==
    /\ calls[c].pc = "xinclude"
    /\ LET f == calls[c]
       IN calls' = [calls EXCEPT ![c] =
               IF f.args.xinclude
               THEN Step([f EXCEPT !.rules_doc = xinclude(f.rules_doc)],
                         "update", "transclusion")
               ELSE Goto(f, "update")]
    /\ UNCHANGED <<prefix, theme, before, rpc, passes, registry, cli>>

\* lines 124-125
UpdateNamespace(c) ==
    /\ calls[c].pc = "update"
    /\ LET f == calls[c]
       IN calls' = [calls EXCEPT ![c] =
               IF f.args.update
               THEN Step([f EXCEPT !.rules_doc = update_namespace(f.rules_doc)],
                         "css", "migration")
               ELSE Goto(f, "css")]
    /\ UNCHANGED <<prefix, theme, before, rpc, passes, registry, cli>>

\* lines 126-127
ConvertCss(c) ==
    /\ calls[c].pc = "css"
    /\ LET f == calls[c]
       IN calls' = [calls EXCEPT ![c] =
               IF f.args.css
               THEN Step([f EXCEPT !.rules_doc = convert_css_selectors(f.rules_doc)],
                         "parse_theme", "selector translation")
               ELSE Goto(f, "parse_theme")]
    /\ UNCHANGED <<prefix, theme, before, rpc, passes, registry, cli>>

\* lines 129-131
ParseTheme(c) ==
    /\ calls[c].pc = "parse_theme"
    /\ LET f == calls[c]
       IN calls' = [calls EXCEPT ![c] =
               Step([f EXCEPT !.theme_doc = f.args.theme], "prefix", "parse theme")]
    /\ UNCHANGED <<prefix, theme, before, rpc, passes, registry, cli>>

\* lines 133-134; an error raised by apply_absolute_prefix ends the call
ApplyPrefix(c) ==
    /\ calls[c].pc = "prefix"
    /\ LET f == calls[c]
           res == apply_absolute_prefix(f.theme_doc, f.args.absolute_prefix)
       IN calls' = [calls EXCEPT ![c] =
               IF f.args.absolute_prefix = <<>> THEN Goto(f, "transform")
               ELSE Step([f EXCEPT !.theme_doc = res.doc],
                         IF res.raised THEN "raised" ELSE "transform", "url rewriting")]
    /\ UNCHANGED <<prefix, theme, before, rpc, passes, registry, cli>>

\* lines 136-140: the parser of the call is the caller's, or a fresh one that
\* no other call sees (parser c); the policy is the caller's or the default
BuildTransform(c) ==
    /\ calls[c].pc = "transform"
    /\ LET f == calls[c]
       IN calls' = [calls EXCEPT ![c] =
               Goto([f EXCEPT
                        !.compiler_parser =
                            IF f.args.compiler_parser = {} THEN {c}
                            ELSE f.args.compiler_parser,
                        !.access_control =
                            IF f.args.access_control = {} THEN {DefaultAccessControl}
                            ELSE f.args.access_control],
                    "params")]
    /\ UNCHANGED <<prefix, theme, before, rpc, passes, registry, cli>>

\* the resolver built from the document as parsed, not the working document
ResolverOfParsed(c, f) ==
    CompileResolver(c, tostring(f.parsed),
                    {tostring(ParseExtraFile(x)) : x \in f.args.extra})

\* lines 143-147
ResolverOf(c, f) ==
    CompileResolver(c, tostring(f.rules_doc),
                    {tostring(ParseExtraFile(x)) : x \in f.args.extra})

\* lines 142-151
ParamsOf(f) ==
    {<<"rulesuri", RulesSlot>>}
    \cup (IF f.args.extra # {} THEN {<<"extraurl", ExtraSlot>>} ELSE {})
    \cup (IF f.args.trace THEN {<<"trace", "1">>} ELSE {})
    \cup {<<"includemode", m>> : m \in f.args.includemode}

\* lines 142-151
BuildResolver(c) ==
    /\ calls[c].pc = "params"
    /\ LET f == calls[c]
       IN calls' = [calls EXCEPT ![c] =
               Goto([f EXCEPT !.params = ParamsOf(f), !.resolver = {ResolverOf(c, f)}],
                    "register")]
    /\ UNCHANGED <<prefix, theme, before, rpc, passes, registry, cli>>

\* line 153: compiler_parser.resolvers.add(resolver)
Register(c) ==
    /\ calls[c].pc = "register"
    /\ LET parser == CHOOSE x \in calls[c].compiler_parser : TRUE
       IN registry' = [registry EXCEPT ![parser] = @ \cup calls[c].resolver]
    /\ calls' = [calls EXCEPT ![c] = Step(@, "execute", "register")]
    /\ UNCHANGED <<prefix, theme, before, rpc, passes, cli>>

\* line 154: the transform-generating program starts
Execute(c) ==
    /\ calls[c].pc = "execute"
    /\ calls' = [calls EXCEPT ![c] = Step(@, "running", "execute")]
    /\ UNCHANGED <<prefix, theme, before, rpc, passes, registry, cli>>

\* line 154: the program asks for a document; the resolvers of the parser its
\* stylesheet was parsed with are asked
LoadDocument(c, url) ==
    /\ calls[c].pc = "running"
    /\ url \notin {a.url : a \in calls[c].loaded}
    /\ LET parser == CHOOSE x \in calls[c].compiler_parser : TRUE
       IN \E a \in Answers(registry[parser], url) :
              calls' = [calls EXCEPT ![c].loaded = @ \cup {a}]
    /\ UNCHANGED <<prefix, theme, before, rpc, passes, registry, cli>>

\* lines 154-157: the program has read the rules; the call returns
Return(c) ==
    /\ calls[c].pc = "running"
    /\ RulesSlot \in {a.url : a \in calls[c].loaded}
    /\ calls' = [calls EXCEPT ![c] = Goto(@, "returned")]
    /\ UNCHANGED <<prefix, theme, before, rpc, passes, registry, cli>>

\* the steps of the calls of compile_theme, taken one at a time
NextCompile ==
    \/ \E c \in DOMAIN calls : ParseRules(c)
    \/ \E c \in DOMAIN calls : XInclude(c)
    \/ \E c \in DOMAIN calls : UpdateNamespace(c)
    \/ \E c \in DOMAIN calls : ConvertCss(c)
    \/ \E c \in DOMAIN calls : ParseTheme(c)
    \/ \E c \in DOMAIN calls : ApplyPrefix(c)
    \/ \E c \in DOMAIN calls : BuildTransform(c)
    \/ \E c \in DOMAIN calls : BuildResolver(c)
    \/ \E c \in DOMAIN calls : Register(c)
    \/ \E c \in DOMAIN calls : Execute(c)
    \/ \E c \in DOMAIN calls, url \in Urls : LoadDocument(c, url)
    \/ \E c \in DOMAIN calls : Return(c)

(***************************************************************************)
(* The console scripts: the compiler's main and the runner's main.          *)
(***************************************************************************)
RulesFile == [file |-> 1, ns |-> "xdv"]

\* compiler.py line 208: the keywords main passes to compile_theme
MainKeywords ==
    {"rules", "theme", "extra", "trace", "xinclude", "absolute_prefix",
     "includemode", "access_control"}

\* run.py lines 71-79: the keywords the runner passes to compile_theme
RunnerKeywords ==
    {"rules", "theme", "extra", "parser", "read_network", "absolute_prefix",
     "includemode"}

\* a call is rejected with TypeError when it passes a keyword that is not a
\* parameter of the function
Accepted(keywords) == keywords \subseteq CompileThemeParams

\* compiler.py lines 193-201
MainParseArgs ==
    /\ cli.script = "xdvcompiler"
    /\ cli.pc = "start"
    /\ LET o == cli.options IN
       cli' = IF o.rules = {} /\ o.theme = {}
              THEN (IF cli.nargs = 2
                    THEN [cli EXCEPT !.pc = "call", !.options.rules = {RulesFile},
                                     !.options.theme = {cli.theme_file}]
                    ELSE [cli EXCEPT !.pc = "usage error"])
              ELSE IF ~(o.rules # {} /\ o.theme # {})
              THEN [cli EXCEPT !.pc = "usage error"]
              ELSE [cli EXCEPT !.pc = "call"]
    /\ UNCHANGED <<prefix, theme, before, rpc, passes, calls, registry>>

\* compiler.py lines 203-208: the policy is built and compile_theme is called
MainCompile ==
    /\ cli.script = "xdvcompiler"
    /\ cli.pc = "call"
    /\ LET o == cli.options
           access_control == MainAccessControl(o.read_network)
       IN /\ cli' = [cli EXCEPT !.access_control = {access_control},
                                !.pc = IF Accepted(MainKeywords) THEN "compiling"
                                       ELSE "TypeError"]
          /\ calls' = IF Accepted(MainKeywords)
                      THEN [c \in {1} |->
                               Frame(Args(CHOOSE x \in o.rules : TRUE,
                                          CHOOSE x \in o.theme : TRUE,
                                          o.extra, TRUE, TRUE, o.absolute_prefix, TRUE,
                                          o.trace, o.includemode, {}, {access_control}))]
                      ELSE calls
    /\ UNCHANGED <<prefix, theme, before, rpc, passes, registry>>

\* run.py lines 39-60
RunParseArgs ==
    /\ cli.script = "xdvrun"
    /\ cli.pc = "start"
    /\ LET o == cli.options IN
       cli' = IF cli.nargs > 2 THEN [cli EXCEPT !.pc = "usage error"]
              ELSE IF cli.nargs = 2
              THEN (IF o.xsl # {} \/ o.rules # {}
                    THEN [cli EXCEPT !.pc = "usage error"]
                    ELSE IF cli.path_is_xsl
                    THEN [cli EXCEPT !.pc = "load", !.options.xsl = {"path"}]
                    ELSE [cli EXCEPT !.pc = "load", !.options.rules = {RulesFile}])
              ELSE IF cli.nargs = 1
              THEN (IF o.rules = {} /\ o.xsl = {}
                    THEN [cli EXCEPT !.pc = "usage error"]
                    ELSE [cli EXCEPT !.pc = "load"])
              ELSE [cli EXCEPT !.pc = "usage error"]
    /\ UNCHANGED <<prefix, theme, before, rpc, passes, calls, registry>>

\* run.py lines 62-79: the transform is parsed from the file given, or
\* compile_theme is called for the rules and theme
RunLoadTransform ==
    /\ cli.script = "xdvrun"
    /\ cli.pc = "load"
    /\ LET o == cli.options IN
       IF o.xsl # {}
       THEN /\ cli' = [cli EXCEPT !.pc = "policy", !.output_xslt = "parsed"]
            /\ calls' = calls
       ELSE IF ~Accepted(RunnerKeywords)
       THEN /\ cli' = [cli EXCEPT !.pc = "TypeError"]
            /\ calls' = calls
       ELSE /\ cli' = [cli EXCEPT !.pc = "compiling"]
            /\ calls' = [c \in {1} |->
                            Frame(Args(CHOOSE x \in o.rules : TRUE, cli.theme_file,
                                       o.extra, TRUE, TRUE, o.absolute_prefix, TRUE,
                                       FALSE, o.includemode, {}, {}))]
    /\ UNCHANGED <<prefix, theme, before, rpc, passes, registry>>

\* the call of compile_theme made by a script ends: compiler.py line 209
\* writes the transform, run.py goes on at line 81; an error ends the script
CompileEnds ==
    /\ cli.pc = "compiling"
    /\ calls[1].pc \in {"returned", "raised"}
    /\ cli' = IF calls[1].pc = "raised" THEN [cli EXCEPT !.pc = "raised"]
              ELSE IF cli.script = "xdvcompiler"
              THEN [cli EXCEPT !.pc = "done", !.output_xslt = "compiled",
                               !.written = TRUE]
              ELSE [cli EXCEPT !.pc = "policy", !.output_xslt = "compiled"]
    /\ UNCHANGED <<prefix, theme, before, rpc, passes, calls, registry>>

\* run.py lines 81-87
RunSelectPolicy ==
    /\ cli.script = "xdvrun"
    /\ cli.pc = "policy"
    /\ cli' = [cli EXCEPT !.pc = "transform",
                          !.access_control =
                              IF cli.options.read_network THEN {AC_READ_NET}
                              ELSE {AC_READ_FILE}]
    /\ UNCHANGED <<prefix, theme, before, rpc, passes, calls, registry>>

\* run.py lines 89-94: the content is parsed, transformed and written
RunTransform ==
    /\ cli.script = "xdvrun"
    /\ cli.pc = "transform"
    /\ cli' = [cli EXCEPT !.pc = "done", !.written = TRUE]
    /\ UNCHANGED <<prefix, theme, before, rpc, passes, calls, registry>>

NextScripts ==
    \/ MainParseArgs
    \/ MainCompile
    \/ RunParseArgs
    \/ RunLoadTransform
    \/ CompileEnds
    \/ RunSelectPolicy
    \/ RunTransform

(***************************************************************************)
(* Specifications.                                                          *)
(***************************************************************************)
Optional(S) == {{}} \cup {{x} : x \in S}

\* the themes the compiler is run on: one that rewrites, one whose style
\* element is empty
CompileThemes ==
    {<<Node("img", 2, "src", RelRef, <<>>)>>,
     <<Node("style", 2, "none", <<>>, <<>>), Node("img", 2, "src", RelRef, <<>>)>>}

NoRewrite ==
    /\ prefix = <<>>
    /\ theme = <<>>
    /\ before = <<>>
    /\ rpc = "off"
    /\ passes = 0

\* one call of compile_theme by a user of the library
InitApi ==
    /\ NoRewrite
    /\ cli = NoCli
    /\ registry = [p \in 0..1 |-> {}]
    /\ \E ns \in {"old", "xdv"}, th \in CompileThemes, extra \in Optional({"extra.xsl"}),
          css \in BOOLEAN, xinc \in BOOLEAN, update \in BOOLEAN,
          ap \in {<<>>, <<"/", "a", "/">>}, trace \in BOOLEAN,
          includemode \in Optional({"esi"}), compiler_parser \in Optional({0}),
          access_control \in Optional(CallerPolicies) :
          calls = [c \in {1} |->
                      Frame(Args([file |-> 1, ns |-> ns], th, extra, css, xinc, ap,
                                 update, trace, includemode, compiler_parser,
                                 access_control))]

\* a run of one of the two console scripts
InitScript ==
    /\ NoRewrite
    /\ calls = NoCalls
    /\ registry = [p \in 0..1 |-> {}]
    /\ \E script \in {"xdvcompiler", "xdvrun"}, nargs \in 0..3, path_is_xsl \in BOOLEAN,
          rules \in Optional({RulesFile}), th \in CompileThemes,
          theme_given \in BOOLEAN, extra \in Optional({"extra.xsl"}),
          xsl \in Optional({"path"}), ap \in {<<>>, <<"/", "a", "/">>},
          read_network \in BOOLEAN :
          /\ (script = "xdvcompiler") => (xsl = {} /\ ~path_is_xsl)
          /\ cli = Cli(script, "start", nargs, path_is_xsl,
                       Options(rules, IF theme_given THEN {th} ELSE {}, extra, xsl,
                               FALSE, ap, {}, read_network),
                       th)

Init == InitApi \/ InitScript

Next == NextCompile \/ NextScripts

Spec == Init /\ [][Next]_vars

\* MaxCalls calls of compile_theme, each with its own rules and theme; a call
\* passes no compiler_parser or the one parser (0) its caller keeps
InitShared ==
    /\ NoRewrite
    /\ cli = NoCli
    /\ registry = [p \in 0..MaxCalls |-> {}]
    /\ calls \in [1..MaxCalls -> {Frame(Args([file |-> f, ns |-> "xdv"],
                                            <<Node("img", 2, "src", RelRef, <<>>)>>,
                                            extra, TRUE, TRUE, <<>>, TRUE, FALSE, {},
                                            compiler_parser, {})) :
                                     f \in 1..MaxCalls,
                                     extra \in Optional(1..MaxCalls),
                                     compiler_parser \in Optional({0})}]
    /\ \A c \in 1..MaxCalls :
           /\ calls[c].args.rules.file = c
           /\ calls[c].args.extra \subseteq {c}

SpecShared == InitShared /\ [][NextCompile]_vars

(***************************************************************************)
(* Claims about the compiler and the runner.                                *)
(***************************************************************************)
LoadedUrls(f) == {a.url : a \in f.loaded}

\* C3: a request for the rules slot is answered by the call's resolver with
\* the rules bytes it registered; a request for the extra slot is answered by
\* it with the extension bytes when an extension was supplied and is left to
\* the ambient loader when none was; any other request is left to the
\* ambient loader.
C3_ResolverAnswers ==
    \A c \in DOMAIN calls :
        \A a \in calls[c].loaded :
            LET f == calls[c] IN
            /\ (a.url = RulesSlot) =>
                   (a.by = c /\ \A r \in f.resolver : a.doc = r.rules)
            /\ (a.url = ExtraSlot /\ f.args.extra # {}) =>
                   (a.by = c /\ a.doc.kind = "extra bytes"
                    /\ a.doc.file \in f.args.extra)
            /\ (a.url = ExtraSlot /\ f.args.extra = {}) => a.by = 0
            /\ (a.url \notin {RulesSlot, ExtraSlot}) => a.by = 0

\* a call without an extension program has asked for all three identifiers
C3_Witness ==
    \E c \in DOMAIN calls :
        /\ calls[c].args.extra = {}
        /\ LoadedUrls(calls[c]) = Urls

\* C4: a request made during one compilation is never answered by the
\* resolver of another compilation.
C4_OwnBytesOnly ==
    \A c \in DOMAIN calls : \A a \in calls[c].loaded : a.by \in {0, c}

PolicyOk(p, network_option) ==
    /\ p.read_file
    /\ ~p.write_file
    /\ ~p.create_dir
    /\ ~p.write_network
    /\ p.read_network => network_option

\* C5: the default policy of compile_theme, the policy the compiler's main
\* builds and the preset the runner's main selects grant reading local
\* storage, deny both writes and directory creation, and grant reading the
\* network only when the network option was set.
C5_PoliciesReadOnly ==
    /\ \A c \in DOMAIN calls :
           calls[c].args.access_control = {}
               => \A p \in calls[c].access_control : PolicyOk(p, FALSE)
    /\ \A p \in cli.access_control : PolicyOk(p, cli.options.read_network)
    /\ (cli.script = "xdvcompiler" /\ DOMAIN calls # {})
           => calls[1].args.access_control = cli.access_control

\* the compiler's main has built its policy with the network option set and
\* compile_theme runs under it
C5_Witness ==
    /\ cli.script = "xdvcompiler"
    /\ cli.options.read_network
    /\ DOMAIN calls # {}
    /\ calls[1].access_control = cli.access_control
    /\ cli.access_control # {}

\* C6: the runner, given rules and a theme and no precompiled transform, is
\* never stopped by compile_theme rejecting the call.
C6_RunnerCompileAccepted ==
    (cli.script = "xdvrun" /\ cli.options.xsl = {}) => cli.pc # "TypeError"

IsPrefix(s, t) == Len(s) <= Len(t) /\ s = SubSeq(t, 1, Len(s))

ExpectedSteps(args) ==
    <<"parse rules">>
    \o (IF args.xinclude THEN <<"transclusion">> ELSE <<>>)
    \o (IF args.update THEN <<"migration">> ELSE <<>>)
    \o (IF args.css THEN <<"selector translation">> ELSE <<>>)
    \o <<"parse theme">>
    \o (IF args.absolute_prefix # <<>> THEN <<"url rewriting">> ELSE <<>>)
    \o <<"register", "execute">>

\* the rules document after every enabled normalisation step
WorkingDocument(args) ==
    [kind |-> "rules", file |-> args.rules.file,
     ns |-> IF args.update THEN "xdv" ELSE args.rules.ns,
     included |-> args.xinclude,
     locators |-> IF args.css THEN "xpath" ELSE "css"]

\* C9: the steps of a call run in the order parse rules, transclusion,
\* migration, selector translation, parse theme, url rewriting, register,
\* execute, each optional one only when enabled; the rules bytes of the
\* call's resolver are those of the document after every enabled
\* normalisation step; the resolver is registered before the program runs.
C9_StepOrder ==
    \A c \in DOMAIN calls :
        LET f == calls[c] IN
        /\ IsPrefix(f.steps, ExpectedSteps(f.args))
        /\ f.pc \in {"running", "returned"} => f.steps = ExpectedSteps(f.args)
        /\ \A r \in f.resolver :
               /\ r.rules.kind = "rules bytes"
               /\ [r.rules EXCEPT !.kind = "rules"] = WorkingDocument(f.args)
        /\ f.pc \in {"running", "returned"} =>
               \A p \in f.compiler_parser : f.resolver \subseteq registry[p]

\* a call with every step enabled, on rules in the deprecated namespace, has
\* returned
C9_Witness ==
    \E c \in DOMAIN calls :
        LET f == calls[c] IN
        /\ f.pc = "returned"
        /\ f.args.xinclude /\ f.args.update /\ f.args.css
        /\ f.args.rules.ns = "old"
        /\ f.args.absolute_prefix # <<>>
        /\ Len(f.steps) = 8

====
